---- MODULE Spec2Model ----
(***************************************************************************)
(* Model of the ELICS entity handle (src/src/Entity.ts) together with the  *)
(* three collaborators it drives: the Entity Pool (EntityManager), the      *)
(* Query Index (QueryManager) and the Component Store (ComponentManager).  *)
(* The collaborators are not part of src/ and are modelled from spec.md    *)
(* sections 4.2 - 4.4.                                                      *)
(*                                                                         *)
(* Every handler of the handle is an operator from the world before the    *)
(* call to the outcome of the call (the world after it, the value returned *)
(* or the error thrown, and the statements it executed in order).  One     *)
(* action per handler applies it atomically: execution is single-threaded  *)
(* and synchronous (spec.md section 5).                                    *)
(***************************************************************************)
EXTENDS Integers, Sequences, FiniteSets, TLC

VARIABLES
    entity,       \* handle -> [index, active, bitmask, vectorViews] (Entity fields)
    pool,         \* Entity Pool: free list of released indices
    entityIndex,  \* Entity Pool: next never-used index
    matches,      \* Query Index: query -> set of matching entity indices
    data,         \* componentClass.data[key]: key -> generation of its current buffer
    buffers,      \* typed arrays ever allocated: key -> generation -> numbers
    views,        \* subarray views ever created: handle -> key -> sequence of views
    calls,        \* client calls made so far (counted in bounded runs only)
    held,         \* history: handle -> components added and not removed since
    lastCall      \* history: the last call made on a handle and its outcome

vars == <<entity, pool, entityIndex, matches, data, buffers, views, calls,
          held, lastCall>>

----------------------------------------------------------------------------
(* Bounds of the model *)

MaxHandles == 2   \* handle instances the pool hands out in one run
MaxCalls == 6     \* client calls in one run of the storage specification
MaxLife == 5      \* client calls in one run of the whole-life specification

Values == {0, 1}  \* numbers a client writes

----------------------------------------------------------------------------
(* Entity.ts:9-12 and the literal messages of lines 68, 79, 88 *)

Null == "null"          \* no error, no component
NullMask == {Null}      \* a null bitmask (no BitSet)
Undefined == -1         \* undefined where a number is expected
NoView == <<>>          \* no cached view
NoKey == <<>>           \* a call that names no field

MODIFY_DESTROYED_ENTITY == "Cannot modify a destroyed entity"
ACCESS_DESTROYED_ENTITY == "Cannot access a destroyed entity"
NOT_REGISTERED == "Component type not registered"
NOT_FOUND == "Component not found"

----------------------------------------------------------------------------
(* Component types.  A and B are registered (each owns one bit); U is a    *)
(* component class that was never registered: its bitmask is null.         *)

Registered == {"A", "B"}
Components == Registered \cup {"U"}

\* componentClass.bitmask: a BitSet (here the set of its bits) or null
ComponentBitmask(c) == IF c \in Registered THEN {c} ELSE NullMask

\* componentClass.schema: A{x: scalar, v: 2-vector}, B{x: scalar}
Schema(c) == IF c = "A" THEN {"x", "v"} ELSE IF c = "B" THEN {"x"} ELSE {}

\* the (component, field) pairs that own a buffer
Keys == {k \in Registered \X {"x", "v"} : k[2] \in Schema(k[1])}

\* the order in which Object.entries(schema) visits the fields of a component
FieldOrder(c) == IF c = "A" THEN <<"x", "v">> ELSE IF c = "B" THEN <<"x">> ELSE <<>>

\* TypedArrayMap[componentClass.schema[key].type].length
TypedArrayMapLength(c, f) == IF f = "v" THEN 2 ELSE 1

\* schema default of a field, as the sequence of its elements
DefaultOf(c, f) == IF f = "v" THEN <<0, 0>> ELSE <<0>>

\* initialData records a client passes to addComponent: a function from some
\* of the fields to the elements to write
NoData == <<>>
InitialDatas(c) ==
    IF c = "A" THEN {[f \in {"x"} |-> <<1>>], [f \in {"v"} |-> <<1, 1>>]}
    ELSE IF c = "B" THEN {[f \in {"x"} |-> <<1>>]}
    ELSE {[f \in {"x"} |-> <<1>>]}

----------------------------------------------------------------------------
(* BitSet operations used by the handle *)

BitOr(a, b) == a \cup b
BitAndNot(a, b) == a \ b
BitAnd(a, b) == a \cap b
BitIsEmpty(a) == a = {}

----------------------------------------------------------------------------
(* Registered queries: required mask / excluded mask *)

Queries == {"AB", "AnotB", "notB"}
RequiredMask(q) == IF q = "AB" THEN {"A", "B"} ELSE IF q = "AnotB" THEN {"A"} ELSE {}
ExcludedMask(q) == IF q = "AB" THEN {} ELSE {"B"}

QueryMatches(q, mask) ==
    /\ RequiredMask(q) \subseteq mask
    /\ BitIsEmpty(BitAnd(mask, ExcludedMask(q)))

----------------------------------------------------------------------------
(* The world: the program state a handler reads and writes *)

World == [entity |-> entity, pool |-> pool, entityIndex |-> entityIndex,
          matches |-> matches, data |-> data, buffers |-> buffers,
          views |-> views]

Handles == DOMAIN entity

NoViews == [k \in Keys |-> NoView]

\* what a handler call produces: the world after it, the error thrown (or
\* Null), the value returned, and the statements executed, in order
Throw(w, msg) == [w |-> w, err |-> msg, ret |-> Null, steps |-> <<>>]
Return(w, ret, steps) == [w |-> w, err |-> Null, ret |-> ret, steps |-> steps]

\* the world as handle h sees it right after one statement of a handler
Step(ev, w, h) ==
    [ev |-> ev,
     active |-> w.entity[h].active,
     bitmask |-> w.entity[h].bitmask,
     free |-> \E n \in 1..Len(w.pool) : w.pool[n] = w.entity[h].index,
     queries |-> {q \in Queries : w.entity[h].index \in w.matches[q]}]

----------------------------------------------------------------------------
(* Typed arrays.  A buffer is a sequence; JavaScript position p is element  *)
(* p + 1 of the sequence.  The buffers of a key are told apart by their     *)
(* generation: growth allocates the next one.  A view is                    *)
(* [key, gen, begin, len]: it owns no storage and reads and writes the      *)
(* buffer it was cut from.  The identity of a view object is                *)
(* <<handle, key, n>>: the n-th view that handle created for that key.      *)

Min(a, b) == IF a < b THEN a ELSE b
Max(a, b) == IF a > b THEN a ELSE b

Zeros(n) == [p \in 1..n |-> 0]

\* typedArray[p]: undefined outside the array
ArrayGet(buf, p) == IF p >= 0 /\ p < Len(buf) THEN buf[p + 1] ELSE Undefined

\* typedArray[p] = v: ignored outside the array
ArraySet(buf, p, v) == IF p >= 0 /\ p < Len(buf) THEN [buf EXCEPT ![p + 1] = v] ELSE buf

\* componentClass.data[key]: the current buffer of a key
CurrentBuffer(w, k) == w.buffers[k][w.data[k]]

\* typedArray.subarray(begin, end) on the current buffer of key k: both ends
\* are clamped to the array
Subarray(w, k, begin, end) ==
    LET n == Len(CurrentBuffer(w, k))
        lo == Min(begin, n)
        hi == Min(end, n)
    IN [key |-> k, gen |-> w.data[k], begin |-> lo, len |-> Max(hi - lo, 0)]

\* the view object with identity id
ViewOf(w, id) == w.views[id[1]][id[2]][id[3]]

\* view[e]
ViewGet(w, id, e) ==
    LET v == ViewOf(w, id)
    IN IF e >= 0 /\ e < v.len
       THEN ArrayGet(w.buffers[v.key][v.gen], v.begin + e) ELSE Undefined

\* view[e] = x
ViewSet(w, id, e, x) ==
    LET v == ViewOf(w, id)
    IN IF e >= 0 /\ e < v.len
       THEN [w EXCEPT !.buffers[v.key][v.gen] = ArraySet(@, v.begin + e, x)]
       ELSE w

----------------------------------------------------------------------------
(* Entity Pool (spec.md 4.4) *)

\* releaseEntityInstance(handle): the handle's index joins the free list
releaseEntityInstance(w, h) ==
    [w EXCEPT !.pool = Append(@, w.entity[h].index)]

\* the free-list positions an allocation may take its index from (the reuse
\* order is arbitrary); 0 stands for a fresh index, taken when the list is
\* empty
ReusePositions(w) == IF Len(w.pool) > 0 THEN 1..Len(w.pool) ELSE {0}

\* allocation: a released index (the one at position n of the free list) is
\* reused in preference to a fresh one; the handle is a new instance (active,
\* empty bitmask, empty view cache)
requestEntityInstance(w, n) ==
    LET h == Cardinality(DOMAIN w.entity) + 1
        reuse == n > 0
        i == IF reuse THEN w.pool[n] ELSE w.entityIndex
        e == [index |-> i, active |-> TRUE, bitmask |-> {}, vectorViews |-> NoViews]
    IN [w EXCEPT !.entity = @ @@ (h :> e),
                 !.views = @ @@ (h :> [k \in Keys |-> <<>>]),
                 !.pool = IF reuse
                          THEN SubSeq(@, 1, n - 1) \o SubSeq(@, n + 1, Len(@))
                          ELSE @,
                 !.entityIndex = IF reuse THEN @ ELSE @ + 1]

----------------------------------------------------------------------------
(* Query Index (spec.md 4.3) *)

\* updateEntity(entity): re-evaluates that entity against every query's masks
updateEntity(w, h) ==
    LET e == w.entity[h]
    IN [w EXCEPT !.matches =
          [q \in Queries |->
             IF QueryMatches(q, e.bitmask) THEN @[q] \cup {e.index}
             ELSE @[q] \ {e.index}]]

----------------------------------------------------------------------------
(* Component Store (spec.md 4.2) *)

InitCapacity == 1   \* entities a field buffer holds before its first growth

\* growth: copy-and-replace; componentClass.data[key] then names the new buffer
GrowBuffer(w, k, need) ==
    LET old == CurrentBuffer(w, k)
        new == old \o Zeros(need - Len(old))
    IN [w EXCEPT !.buffers[k] = Append(@, new), !.data[k] = Len(w.buffers[k]) + 1]

\* one field of attachComponentToEntity: initialData[field] ?? default, written
\* at offset index * length, after growing the buffer when index is beyond it
AttachField(w, i, c, f, d) ==
    LET k == <<c, f>>
        len == TypedArrayMapLength(c, f)
        val == IF f \in DOMAIN d THEN d[f] ELSE DefaultOf(c, f)
        w1 == IF Len(CurrentBuffer(w, k)) < (i + 1) * len
              THEN GrowBuffer(w, k, (i + 1) * len) ELSE w
    IN [w1 EXCEPT !.buffers[k][w1.data[k]] =
          [p \in 1..Len(@) |->
             IF p - 1 >= i * len /\ p - 1 < (i + 1) * len
             THEN val[p - i * len] ELSE @[p]]]

RECURSIVE AttachFields(_, _, _, _, _)
AttachFields(w, i, c, fs, d) ==
    IF fs = <<>> THEN w
    ELSE AttachFields(AttachField(w, i, c, Head(fs), d), i, c, Tail(fs), d)

attachComponentToEntity(w, i, c, d) == AttachFields(w, i, c, FieldOrder(c), d)

----------------------------------------------------------------------------
(* Entity handle (Entity.ts:39-129) *)

\* addComponent that looks at the component type before the active flag
addComponent_TypeCheckFirst(w, h, c, d) ==
    IF ComponentBitmask(c) = NullMask THEN Throw(w, NOT_REGISTERED)
    ELSE IF ~w.entity[h].active THEN Throw(w, MODIFY_DESTROYED_ENTITY)
    ELSE
        LET w1 == [w EXCEPT !.entity[h].bitmask = BitOr(@, ComponentBitmask(c))]
            w2 == attachComponentToEntity(w1, w1.entity[h].index, c, d)
            w3 == updateEntity(w2, h)
        IN Return(w3, h, << Step("bitmask", w1, h),
                            Step("attachComponentToEntity", w2, h),
                            Step("updateEntity", w3, h) >>)

\* addComponent that sets the bit and notifies but never writes the component
addComponent_NoAttach(w, h, c, d) ==
    IF ~w.entity[h].active THEN Throw(w, MODIFY_DESTROYED_ENTITY)
    ELSE IF ComponentBitmask(c) # NullMask THEN
        LET w1 == [w EXCEPT !.entity[h].bitmask = BitOr(@, ComponentBitmask(c))]
            w3 == updateEntity(w1, h)
        IN Return(w3, h, << Step("bitmask", w1, h),
                            Step("updateEntity", w3, h) >>)
    ELSE Throw(w, NOT_REGISTERED)

\* addComponent that notifies the Query Index before the Component Store write
addComponent_NotifyBeforeAttach(w, h, c, d) ==
    IF ~w.entity[h].active THEN Throw(w, MODIFY_DESTROYED_ENTITY)
    ELSE IF ComponentBitmask(c) # NullMask THEN
        LET w1 == [w EXCEPT !.entity[h].bitmask = BitOr(@, ComponentBitmask(c))]
            w2 == updateEntity(w1, h)
            w3 == attachComponentToEntity(w2, w2.entity[h].index, c, d)
        IN Return(w3, h, << Step("bitmask", w1, h),
                            Step("updateEntity", w2, h),
                            Step("attachComponentToEntity", w3, h) >>)
    ELSE Throw(w, NOT_REGISTERED)

\* addComponent that does not pass initialData on to the Component Store
addComponent_DropsInitialData(w, h, c, d) ==
    IF ~w.entity[h].active THEN Throw(w, MODIFY_DESTROYED_ENTITY)
    ELSE IF ComponentBitmask(c) # NullMask THEN
        LET w1 == [w EXCEPT !.entity[h].bitmask = BitOr(@, ComponentBitmask(c))]
            w2 == attachComponentToEntity(w1, w1.entity[h].index, c, NoData)
            w3 == updateEntity(w2, h)
        IN Return(w3, h, << Step("bitmask", w1, h),
                            Step("attachComponentToEntity", w2, h),
                            Step("updateEntity", w3, h) >>)
    ELSE Throw(w, NOT_REGISTERED)

\* addComponent on a bitmask object that all handles share
addComponent_SharedBitmask(w, h, c, d) ==
    IF ~w.entity[h].active THEN Throw(w, MODIFY_DESTROYED_ENTITY)
    ELSE IF ComponentBitmask(c) # NullMask THEN
        LET w1 == [w EXCEPT !.entity =
                      [g \in DOMAIN @ |->
                         [@[g] EXCEPT !.bitmask = BitOr(@, ComponentBitmask(c))]]]
            w2 == attachComponentToEntity(w1, w1.entity[h].index, c, d)
            w3 == updateEntity(w2, h)
        IN Return(w3, h, << Step("bitmask", w1, h),
                            Step("attachComponentToEntity", w2, h),
                            Step("updateEntity", w3, h) >>)
    ELSE Throw(w, NOT_REGISTERED)

\* Entity.ts:52-70
addComponent(w, h, c, d) ==
    IF ~w.entity[h].active THEN Throw(w, MODIFY_DESTROYED_ENTITY)
    ELSE IF ComponentBitmask(c) # NullMask THEN
        LET w1 == [w EXCEPT !.entity[h].bitmask = BitOr(@, ComponentBitmask(c))]
            w2 == attachComponentToEntity(w1, w1.entity[h].index, c, d)
            w3 == updateEntity(w2, h)
        IN Return(w3, h, << Step("bitmask", w1, h),
                            Step("attachComponentToEntity", w2, h),
                            Step("updateEntity", w3, h) >>)
    ELSE Throw(w, NOT_REGISTERED)

\* removeComponent that clears the whole bitmask
removeComponent_ClearsMask(w, h, c) ==
    IF ~w.entity[h].active THEN Throw(w, MODIFY_DESTROYED_ENTITY)
    ELSE IF ComponentBitmask(c) # NullMask THEN
        LET w1 == [w EXCEPT !.entity[h].bitmask = {}]
            w2 == updateEntity(w1, h)
        IN Return(w2, Undefined, << Step("bitmask", w1, h),
                                    Step("updateEntity", w2, h) >>)
    ELSE Throw(w, NOT_FOUND)

\* removeComponent that forgets to notify the Query Index
removeComponent_NoNotify(w, h, c) ==
    IF ~w.entity[h].active THEN Throw(w, MODIFY_DESTROYED_ENTITY)
    ELSE IF ComponentBitmask(c) # NullMask THEN
        LET w1 == [w EXCEPT !.entity[h].bitmask = BitAndNot(@, ComponentBitmask(c))]
        IN Return(w1, Undefined, << Step("bitmask", w1, h) >>)
    ELSE Throw(w, NOT_FOUND)

\* removeComponent that resets the stored fields of the component
removeComponent_ErasesFields(w, h, c) ==
    IF ~w.entity[h].active THEN Throw(w, MODIFY_DESTROYED_ENTITY)
    ELSE IF ComponentBitmask(c) # NullMask THEN
        LET w1 == [w EXCEPT !.entity[h].bitmask = BitAndNot(@, ComponentBitmask(c))]
            w2 == attachComponentToEntity(w1, w1.entity[h].index, c, NoData)
            w3 == updateEntity(w2, h)
        IN Return(w3, Undefined, << Step("bitmask", w1, h),
                                    Step("updateEntity", w3, h) >>)
    ELSE Throw(w, NOT_FOUND)

\* removeComponent that rejects a component the entity does not hold
removeComponent_RequiresPresent(w, h, c) ==
    IF ~w.entity[h].active THEN Throw(w, MODIFY_DESTROYED_ENTITY)
    ELSE IF ComponentBitmask(c) # NullMask THEN
        IF BitIsEmpty(BitAnd(w.entity[h].bitmask, ComponentBitmask(c)))
        THEN Throw(w, NOT_FOUND)
        ELSE
            LET w1 == [w EXCEPT !.entity[h].bitmask = BitAndNot(@, ComponentBitmask(c))]
                w2 == updateEntity(w1, h)
            IN Return(w2, Undefined, << Step("bitmask", w1, h),
                                        Step("updateEntity", w2, h) >>)
    ELSE Throw(w, NOT_FOUND)

\* Entity.ts:72-81
removeComponent(w, h, c) ==
    IF ~w.entity[h].active THEN Throw(w, MODIFY_DESTROYED_ENTITY)
    ELSE IF ComponentBitmask(c) # NullMask THEN
        LET w1 == [w EXCEPT !.entity[h].bitmask = BitAndNot(@, ComponentBitmask(c))]
            w2 == updateEntity(w1, h)
        IN Return(w2, Undefined, << Step("bitmask", w1, h),
                                    Step("updateEntity", w2, h) >>)
    ELSE Throw(w, NOT_FOUND)

\* hasComponent guarded by the active flag
hasComponent_ActiveCheck(w, h, c) ==
    IF ~w.entity[h].active THEN Throw(w, ACCESS_DESTROYED_ENTITY)
    ELSE IF ComponentBitmask(c) # NullMask
    THEN Return(w, ~BitIsEmpty(BitAnd(w.entity[h].bitmask, ComponentBitmask(c))), <<>>)
    ELSE Throw(w, NOT_REGISTERED)

\* Entity.ts:83-90 (null is the only falsy componentClass.bitmask)
hasComponent(w, h, c) ==
    IF ComponentBitmask(c) # NullMask
    THEN Return(w, ~BitIsEmpty(BitAnd(w.entity[h].bitmask, ComponentBitmask(c))), <<>>)
    ELSE Throw(w, NOT_REGISTERED)

\* getValue guarded by the active flag
getValue_ActiveCheck(w, h, k) ==
    IF ~w.entity[h].active THEN Throw(w, ACCESS_DESTROYED_ENTITY)
    ELSE Return(w, ArrayGet(CurrentBuffer(w, k), w.entity[h].index), <<>>)

\* Entity.ts:92-94
getValue(w, h, k) ==
    Return(w, ArrayGet(CurrentBuffer(w, k), w.entity[h].index), <<>>)

\* setValue that addresses the first element of the entity's slot
\* (index * length) where getValue reads position index
setValue_SlotOffset(w, h, k, value) ==
    Return([w EXCEPT !.buffers[k][w.data[k]] =
               ArraySet(@, w.entity[h].index * TypedArrayMapLength(k[1], k[2]), value)],
           Undefined, <<>>)

\* Entity.ts:96-103
setValue(w, h, k, value) ==
    Return([w EXCEPT !.buffers[k][w.data[k]] = ArraySet(@, w.entity[h].index, value)],
           Undefined, <<>>)

\* getVectorView that cuts a new view on every call
getVectorView_NoCacheLookup(w, h, k) ==
    LET length == TypedArrayMapLength(k[1], k[2])
        offset == w.entity[h].index * length
        vectorView == Subarray(w, k, offset, offset + length)
        id == <<h, k, Len(w.views[h][k]) + 1>>
    IN Return([w EXCEPT !.views[h][k] = Append(@, vectorView),
                        !.entity[h].vectorViews[k] = id],
              id, <<>>)

\* getVectorView that cuts the view at position index instead of
\* index * length
getVectorView_IndexOffset(w, h, k) ==
    LET cachedVectorView == w.entity[h].vectorViews[k]
    IN IF cachedVectorView # NoView THEN Return(w, cachedVectorView, <<>>)
       ELSE
        LET length == TypedArrayMapLength(k[1], k[2])
            offset == w.entity[h].index
            vectorView == Subarray(w, k, offset, offset + length)
            id == <<h, k, Len(w.views[h][k]) + 1>>
        IN Return([w EXCEPT !.views[h][k] = Append(@, vectorView),
                            !.entity[h].vectorViews[k] = id],
                  id, <<>>)

\* Entity.ts:105-120: the value returned is the identity of the view
getVectorView(w, h, k) ==
    LET cachedVectorView == w.entity[h].vectorViews[k]
    IN IF cachedVectorView # NoView THEN Return(w, cachedVectorView, <<>>)
       ELSE
        LET length == TypedArrayMapLength(k[1], k[2])
            offset == w.entity[h].index * length
            vectorView == Subarray(w, k, offset, offset + length)
            id == <<h, k, Len(w.views[h][k]) + 1>>
        IN Return([w EXCEPT !.views[h][k] = Append(@, vectorView),
                            !.entity[h].vectorViews[k] = id],
                  id, <<>>)

\* destroy that forgets to notify the Query Index
destroy_NoNotify(w, h) ==
    IF ~w.entity[h].active THEN Throw(w, MODIFY_DESTROYED_ENTITY)
    ELSE
        LET w1 == releaseEntityInstance(w, h)
            w2 == [w1 EXCEPT !.entity[h].active = FALSE]
            w3 == [w2 EXCEPT !.entity[h].bitmask = {}]
        IN Return(w3, Undefined, << Step("releaseEntityInstance", w1, h),
                                    Step("active", w2, h),
                                    Step("bitmask", w3, h) >>)

\* destroy that releases the handle before it looks at the active flag
destroy_ReleaseBeforeCheck(w, h) ==
    LET w1 == releaseEntityInstance(w, h)
    IN IF ~w.entity[h].active THEN Throw(w1, MODIFY_DESTROYED_ENTITY)
       ELSE
        LET w2 == [w1 EXCEPT !.entity[h].active = FALSE]
            w3 == [w2 EXCEPT !.entity[h].bitmask = {}]
            w4 == updateEntity(w3, h)
        IN Return(w4, Undefined, << Step("releaseEntityInstance", w1, h),
                                    Step("active", w2, h),
                                    Step("bitmask", w3, h),
                                    Step("updateEntity", w4, h) >>)

\* destroy that marks the handle inactive before it releases it
destroy_MarksInactiveFirst(w, h) ==
    IF ~w.entity[h].active THEN Throw(w, MODIFY_DESTROYED_ENTITY)
    ELSE
        LET w1 == [w EXCEPT !.entity[h].active = FALSE]
            w2 == releaseEntityInstance(w1, h)
            w3 == [w2 EXCEPT !.entity[h].bitmask = {}]
            w4 == updateEntity(w3, h)
        IN Return(w4, Undefined, << Step("active", w1, h),
                                    Step("releaseEntityInstance", w2, h),
                                    Step("bitmask", w3, h),
                                    Step("updateEntity", w4, h) >>)

\* Entity.ts:122-128
destroy(w, h) ==
    IF ~w.entity[h].active THEN Throw(w, MODIFY_DESTROYED_ENTITY)
    ELSE
        LET w1 == releaseEntityInstance(w, h)
            w2 == [w1 EXCEPT !.entity[h].active = FALSE]
            w3 == [w2 EXCEPT !.entity[h].bitmask = {}]
            w4 == updateEntity(w3, h)
        IN Return(w4, Undefined, << Step("releaseEntityInstance", w1, h),
                                    Step("active", w2, h),
                                    Step("bitmask", w3, h),
                                    Step("updateEntity", w4, h) >>)

----------------------------------------------------------------------------
(* Initial state: components and queries registered, no entity yet *)

Init ==
    /\ entity = <<>>
    /\ pool = <<>>
    /\ entityIndex = 0
    /\ matches = [q \in Queries |-> {}]
    /\ data = [k \in Keys |-> 1]
    /\ buffers = [k \in Keys |->
                    << Zeros(InitCapacity * TypedArrayMapLength(k[1], k[2])) >>]
    /\ views = <<>>
    /\ calls = 0
    /\ held = <<>>
    /\ lastCall = [op |-> "none", h |-> 0, c |-> Null, k |-> NoKey, arg |-> Null,
                   err |-> Null, ret |-> Null, steps |-> <<>>, pre |-> {},
                   roundTrip |-> NullMask]

\* the world after the call becomes the state
Install(w) ==
    /\ entity' = w.entity
    /\ pool' = w.pool
    /\ entityIndex' = w.entityIndex
    /\ matches' = w.matches
    /\ data' = w.data
    /\ buffers' = w.buffers
    /\ views' = w.views

\* the record of a call on handle h with outcome o; arg is the argument
\* of the call (for getVectorView: what the cache held for the key before it)
Call(op, h, c, k, arg, o) ==
    [op |-> op, h |-> h, c |-> c, k |-> k, arg |-> arg,
     err |-> o.err, ret |-> o.ret, steps |-> o.steps,
     pre |-> entity[h].bitmask,
     roundTrip |->
        IF /\ op = "removeComponent" /\ o.err = Null
           /\ lastCall.op = "addComponent" /\ lastCall.err = Null
           /\ lastCall.h = h /\ lastCall.c = c
        THEN lastCall.pre ELSE NullMask]

\* the call wrote component data: it executed attachComponentToEntity
Wrote(o) == \E n \in 1..Len(o.steps) : o.steps[n].ev = "attachComponentToEntity"

----------------------------------------------------------------------------
(* Actions: one per operation a client can invoke *)

CreateEntity ==
    /\ Cardinality(Handles) < MaxHandles
    /\ \E n \in ReusePositions(World) : Install(requestEntityInstance(World, n))
    /\ held' = held @@ ((Cardinality(Handles) + 1) :> {})
    /\ lastCall' = [op |-> "createEntity", h |-> Cardinality(Handles) + 1,
                    c |-> Null, k |-> NoKey, arg |-> Null, err |-> Null,
                    ret |-> Null, steps |-> <<>>, pre |-> {}, roundTrip |-> NullMask]

\* addComponent(type): initialData takes its default, {}
AddComponent ==
    \E h \in Handles, c \in Components :
        LET o == addComponent(World, h, c, NoData)
        IN /\ Install(o.w)
           /\ lastCall' = Call("addComponent", h, c, NoKey, NoData, o)
           /\ held' = IF Wrote(o) THEN [held EXCEPT ![h] = @ \cup {c}] ELSE held

\* addComponent(type, initialData)
AddComponentWith ==
    \E h \in Handles, c \in Components : \E d \in InitialDatas(c) :
        LET o == addComponent(World, h, c, d)
        IN /\ Install(o.w)
           /\ lastCall' = Call("addComponent", h, c, NoKey, d, o)
           /\ held' = IF Wrote(o) THEN [held EXCEPT ![h] = @ \cup {c}] ELSE held

RemoveComponent ==
    \E h \in Handles, c \in Components :
        LET o == removeComponent(World, h, c)
        IN /\ Install(o.w)
           /\ lastCall' = Call("removeComponent", h, c, NoKey, Null, o)
           /\ held' = IF o.err = Null THEN [held EXCEPT ![h] = @ \ {c}] ELSE held

HasComponent ==
    \E h \in Handles, c \in Components :
        LET o == hasComponent(World, h, c)
        IN /\ Install(o.w)
           /\ lastCall' = Call("hasComponent", h, c, NoKey, Null, o)
           /\ UNCHANGED held

Destroy ==
    \E h \in Handles :
        LET o == destroy(World, h)
        IN /\ Install(o.w)
           /\ lastCall' = Call("destroy", h, Null, NoKey, Null, o)
           /\ UNCHANGED held

GetValue ==
    \E h \in Handles, k \in Keys :
        LET o == getValue(World, h, k)
        IN /\ Install(o.w)
           /\ lastCall' = Call("getValue", h, k[1], k, Null, o)
           /\ UNCHANGED held

SetValue ==
    \E h \in Handles, k \in Keys, v \in Values :
        LET o == setValue(World, h, k, v)
        IN /\ Install(o.w)
           /\ lastCall' = Call("setValue", h, k[1], k, v, o)
           /\ UNCHANGED held

GetVectorView ==
    \E h \in Handles, k \in Keys :
        LET o == getVectorView(World, h, k)
        IN /\ Install(o.w)
           /\ lastCall' = Call("getVectorView", h, k[1], k, entity[h].vectorViews[k], o)
           /\ UNCHANGED held

\* the client writes element e of a view that getVectorView returned to it
WriteView ==
    \E h \in Handles, k \in Keys, e \in 0..1, v \in Values :
        /\ entity[h].vectorViews[k] # NoView
        /\ Install(ViewSet(World, entity[h].vectorViews[k], e, v))
        /\ lastCall' = [op |-> "writeView", h |-> h, c |-> k[1], k |-> k,
                        arg |-> <<e, v>>, err |-> Null, ret |-> Null,
                        steps |-> <<>>, pre |-> entity[h].bitmask,
                        roundTrip |-> NullMask]
        /\ UNCHANGED held

----------------------------------------------------------------------------
(* Specifications *)

\* Structural operations: every run of create / add / remove / has / destroy
Unbounded(A) == A /\ UNCHANGED calls

Next ==
    \/ Unbounded(CreateEntity)
    \/ Unbounded(AddComponent)
    \/ Unbounded(RemoveComponent)
    \/ Unbounded(HasComponent)
    \/ Unbounded(Destroy)

Spec == Init /\ [][Next]_vars

\* Storage operations: every run of at most MaxCalls calls that create
\* entities, add components and read and write field data
Bounded(A) == calls < MaxCalls /\ A /\ calls' = calls + 1

NextData ==
    \/ Bounded(CreateEntity)
    \/ Bounded(AddComponent)
    \/ Bounded(AddComponentWith)
    \/ Bounded(GetValue)
    \/ Bounded(SetValue)
    \/ Bounded(GetVectorView)
    \/ Bounded(WriteView)

SpecData == Init /\ [][NextData]_vars

\* Whole life of a handle: every run of at most MaxLife calls of any
\* operation, so that data is read and written on handles that lost a
\* component or were destroyed, and on indices that were reused
Life(A) == calls < MaxLife /\ A /\ calls' = calls + 1

NextLife ==
    \/ Life(CreateEntity)
    \/ Life(AddComponent)
    \/ Life(AddComponentWith)
    \/ Life(RemoveComponent)
    \/ Life(HasComponent)
    \/ Life(Destroy)
    \/ Life(GetValue)
    \/ Life(SetValue)
    \/ Life(GetVectorView)
    \/ Life(WriteView)

SpecLife == Init /\ [][NextLife]_vars

----------------------------------------------------------------------------
(* Vocabulary of the properties *)

Mutators == {"addComponent", "removeComponent", "destroy"}

\* the last call was op and returned normally
Completed(op) == lastCall.op = op /\ lastCall.err = Null

\* the brute-force recomputation of a query: the indices of the active
\* entities whose bitmask covers the required mask and avoids the excluded one
BruteForce(q) ==
    {entity[h].index :
        h \in {g \in Handles : entity[g].active /\ QueryMatches(q, entity[g].bitmask)}}

\* the indices in the pool's free list
FreeList == {pool[n] : n \in 1..Len(pool)}

----------------------------------------------------------------------------
(* C1 *)

\* C1 as stated: after every completed addComponent, removeComponent or
\* destroy call, every registered query's matches set equals the brute-force
\* set.
C1_EveryQueryIsBruteForce ==
    (lastCall.op \in Mutators /\ lastCall.err = Null) =>
        \A q \in Queries : matches[q] = BruteForce(q)

\* C1 (amended): in every state, hence after every completed addComponent,
\* removeComponent or destroy call, the matches set of every registered query
\* whose required mask is not empty equals the brute-force set.  A query
\* with an empty required mask is matched by the empty bitmask, which a
\* freshly created entity (never notified) and a destroyed entity (notified
\* with the cleared mask) both have.
C1_QueriesWithRequiredAreBruteForce ==
    \A q \in Queries : RequiredMask(q) # {} => matches[q] = BruteForce(q)

\* C1 witness: removeComponent(B) has just moved an entity out of the query
\* requiring {A, B} and into the one requiring A and excluding B, while
\* another handle exists.
C1_Witness ==
    /\ Completed("removeComponent")
    /\ lastCall.c = "B"
    /\ lastCall.pre = {"A", "B"}
    /\ entity[lastCall.h].index \in matches["AnotB"]
    /\ entity[lastCall.h].index \notin matches["AB"]
    /\ Cardinality(Handles) = 2

----------------------------------------------------------------------------
(* C2 *)

C2_Step ==
    /\ \A h \in Handles :
          ~entity[h].active =>
             /\ ~entity'[h].active
             /\ entity'[h].bitmask = {}
    /\ (lastCall'.op = "destroy" /\ lastCall'.err = Null) =>
          /\ entity[lastCall'.h].active
          /\ ~entity'[lastCall'.h].active
          /\ entity'[lastCall'.h].bitmask = {}
          /\ \A c \in Registered :
                /\ hasComponent(World', lastCall'.h, c).err = Null
                /\ hasComponent(World', lastCall'.h, c).ret = FALSE
    /\ (lastCall'.op \in Mutators /\ ~entity[lastCall'.h].active) =>
          lastCall'.err = MODIFY_DESTROYED_ENTITY

\* C2: destroy() on an active handle leaves it inactive with an empty bitmask
\* (hasComponent is false for every registered type); an inactive handle
\* stays inactive with an empty bitmask in every step; and every
\* addComponent, removeComponent or destroy call on an inactive handle fails
\* with 'Cannot modify a destroyed entity', whatever the component type.
C2_DestroyedIsTerminal == [][C2_Step]_vars

\* C2 witness: addComponent of the unregistered type on a destroyed handle
\* has just failed with 'Cannot modify a destroyed entity'.
C2_Witness ==
    /\ lastCall.op = "addComponent"
    /\ lastCall.c = "U"
    /\ lastCall.err = MODIFY_DESTROYED_ENTITY
    /\ ~entity[lastCall.h].active

----------------------------------------------------------------------------
(* C3 *)

C3_Step ==
    (lastCall'.op \in Mutators \cup {"hasComponent"} /\ lastCall'.err # Null) =>
        /\ UNCHANGED <<entity, pool, entityIndex, matches, data, buffers, views>>
        /\ lastCall'.steps = <<>>
        /\ \/ ~entity[lastCall'.h].active /\ lastCall'.op # "hasComponent"
           \/ ComponentBitmask(lastCall'.c) = NullMask

\* C3: whenever addComponent, removeComponent, hasComponent or destroy fails,
\* which happens only on an inactive handle or for a component type with no
\* assigned bit, the entities, the pool, the query matches and the component
\* storage are as before the call and the call executed no statement (no
\* notification, no release).
C3_FailureIsAtomic == [][C3_Step]_vars

\* C3 witness: destroy has just failed on a destroyed handle whose earlier
\* destruction put its index in the free list.
C3_Witness ==
    /\ lastCall.op = "destroy"
    /\ lastCall.err = MODIFY_DESTROYED_ENTITY
    /\ entity[lastCall.h].index \in FreeList

----------------------------------------------------------------------------
(* C4 *)

\* C4: a completed addComponent, removeComponent or destroy call executed
\* exactly one Query Index notification, as its last statement, after the
\* bitmask assignment and (addComponent) after the Component Store write; the
\* notification saw the bitmask the call leaves, and it left the entity's index
\* in exactly the queries that bitmask matches.
C4_OneNotificationLast ==
    (lastCall.op \in Mutators /\ lastCall.err = Null) =>
        LET st == lastCall.steps
            n == Len(st)
        IN /\ n >= 2
           /\ st[n].ev = "updateEntity"
           /\ \A m \in 1..(n - 1) : st[m].ev # "updateEntity"
           /\ \E m \in 1..(n - 1) : st[m].ev = "bitmask"
           /\ lastCall.op = "addComponent" =>
                 \E m \in 1..(n - 1) : st[m].ev = "attachComponentToEntity"
           /\ st[n].bitmask = entity[lastCall.h].bitmask
           /\ st[n - 1].bitmask = entity[lastCall.h].bitmask
           /\ st[n].queries = {q \in Queries : QueryMatches(q, entity[lastCall.h].bitmask)}

\* C4 witness: addComponent(B) has just completed on an entity that held A.
C4_Witness ==
    /\ Completed("addComponent")
    /\ lastCall.c = "B"
    /\ lastCall.pre = {"A"}
    /\ Len(lastCall.steps) = 3

----------------------------------------------------------------------------
(* C5 *)

\* the last two calls were addComponent(c) then removeComponent(c) on one
\* handle, both completed; lastCall.roundTrip is the bitmask before the add
RoundTrip == lastCall.roundTrip # NullMask

\* C5 as stated: addComponent(C) followed by removeComponent(C) returns the
\* bitmask to the value it had before the addComponent call, whatever that
\* value was.
C5_AddRemoveRestoresMask ==
    RoundTrip => entity[lastCall.h].bitmask = lastCall.roundTrip

\* C5 (amended): addComponent(C) followed by removeComponent(C) leaves the
\* bitmask equal to its value before the addComponent call with bit(C)
\* cleared; that is the value before the call exactly when the entity did not
\* hold C.
C5_AddRemoveClearsBit ==
    RoundTrip =>
        /\ entity[lastCall.h].bitmask = lastCall.roundTrip \ {lastCall.c}
        /\ (entity[lastCall.h].bitmask = lastCall.roundTrip) <=>
              (lastCall.c \notin lastCall.roundTrip)

\* C5 witness: add A then remove A on an entity that held A and B before.
C5_Witness ==
    /\ RoundTrip
    /\ lastCall.c = "A"
    /\ lastCall.roundTrip = {"A", "B"}

----------------------------------------------------------------------------
(* C6 *)

\* C6 as stated: for every entity and registered C, bit(C) is set iff C's
\* data was written by an addComponent(C) call on that entity and no
\* removeComponent(C) call on it has happened since (held).
C6_BitIffAddedNotRemoved ==
    \A h \in Handles : \A c \in Registered :
        (c \in entity[h].bitmask) <=> (c \in held[h])

\* C6 (amended): for every entity and registered C, bit(C) is set iff C's data
\* was written by an addComponent(C) call on that entity and neither a
\* removeComponent(C) call nor a destroy() call on it has happened since.
C6_BitIffAddedNotRemovedNorDestroyed ==
    \A h \in Handles : \A c \in Registered :
        (c \in entity[h].bitmask) <=> (c \in held[h] /\ entity[h].active)

\* C6 witness: a destroyed entity whose component A was added and never
\* removed, next to a live entity that holds B after A was removed from it.
C6_Witness ==
    \E h, g \in Handles :
        /\ ~entity[h].active /\ "A" \in held[h]
        /\ entity[g].active /\ entity[g].bitmask = {"B"}
        /\ lastCall.op = "removeComponent" /\ lastCall.h = g /\ lastCall.c = "A"
        /\ lastCall.pre = {"A", "B"}

----------------------------------------------------------------------------
(* C7 *)

\* C7 as stated: destroy hands the index to the pool only after its Query
\* Index notification, i.e. at no point of the call is the index in the free
\* list while the bitmask is non-empty or a query still contains it.
C7_ReleaseAfterNotification ==
    Completed("destroy") =>
        LET st == lastCall.steps
        IN /\ \A m, n \in 1..Len(st) :
                (st[m].ev = "releaseEntityInstance" /\ st[n].ev = "updateEntity")
                    => n < m
           /\ \A n \in 1..Len(st) :
                st[n].free => (st[n].bitmask = {} /\ st[n].queries = {})

\* C7 (amended): destroy hands the index to the pool as its first statement,
\* before the bitmask is cleared and the Query Index is notified (its last
\* statement); once destroy has returned, and for as long as the index is in
\* the free list, every handle on that index is inactive with an empty
\* bitmask and no query with a non-empty required mask contains the index.
C7_ReleasedIndexIsClean ==
    /\ \A h \in Handles :
          entity[h].index \in FreeList =>
             /\ ~entity[h].active
             /\ entity[h].bitmask = {}
             /\ \A q \in Queries :
                   RequiredMask(q) # {} => entity[h].index \notin matches[q]
    /\ Completed("destroy") =>
          /\ lastCall.steps[1].ev = "releaseEntityInstance"
          /\ lastCall.steps[1].free
          /\ lastCall.steps[1].bitmask = lastCall.pre
          /\ lastCall.steps[Len(lastCall.steps)].ev = "updateEntity"
          /\ entity[lastCall.h].index \in FreeList

\* C7 witness: destroy of an entity holding A has just completed; when its
\* index was released the query requiring A still contained it.
C7_Witness ==
    /\ Completed("destroy")
    /\ lastCall.pre = {"A"}
    /\ "AnotB" \in lastCall.steps[1].queries
    /\ entity[lastCall.h].index \in FreeList
    /\ entity[lastCall.h].index \notin matches["AnotB"]

----------------------------------------------------------------------------
(* C8 *)

\* the slot of handle h in the buffer of key k: first position and length
SlotBegin(h, k) == entity[h].index * TypedArrayMapLength(k[1], k[2])
SlotLen(k) == TypedArrayMapLength(k[1], k[2])

\* C8 as stated: no getVectorView call returns a view over a buffer that
\* growth has replaced: the view returned is cut from the current buffer of
\* the field, also when the handle had obtained a view before the growth
\* (then it is a different view from the one obtained before).
C8_NoStaleViewAfterGrowth ==
    lastCall.op = "getVectorView" =>
        /\ ViewOf(World, lastCall.ret).gen = data[lastCall.k]
        /\ (lastCall.arg # NoView /\ ViewOf(World, lastCall.arg).gen # data[lastCall.k])
              => lastCall.ret # lastCall.arg

----------------------------------------------------------------------------
(* C9 *)

C9_Step ==
    /\ \A h \in Handles : \A k \in Keys :
          entity[h].vectorViews[k] # NoView =>
             entity'[h].vectorViews[k] = entity[h].vectorViews[k]
    /\ lastCall'.op = "getVectorView" =>
          LET h == lastCall'.h
              k == lastCall'.k
          IN /\ lastCall'.err = Null
             /\ lastCall'.ret = entity'[h].vectorViews[k]
             /\ IF entity[h].vectorViews[k] # NoView
                THEN /\ lastCall'.ret = entity[h].vectorViews[k]
                     /\ views' = views
                ELSE /\ views'[h][k] = Append(views[h][k], ViewOf(World', lastCall'.ret))
                     /\ lastCall'.ret = <<h, k, Len(views'[h][k])>>
             /\ \A j \in Keys \ {k} :
                   entity'[h].vectorViews[j] = entity[h].vectorViews[j]
    /\ \A h \in DOMAIN entity' : \A k, j \in Keys :
          (k # j /\ entity'[h].vectorViews[k] # NoView)
             => entity'[h].vectorViews[k] # entity'[h].vectorViews[j]

\* C9: the first getVectorView(C, f) call on a handle creates a view and
\* caches it under (C, f); every later call with that pair returns the cached
\* instance and creates nothing; no step changes a cache entry once it is
\* set; and the entries of distinct (type, field) pairs are distinct views.
C9_SameViewInstance == [][C9_Step]_vars

\* C9 witness: a getVectorView call has just been answered from the cache,
\* on a handle that also has a cached view for another field.
C9_Witness ==
    /\ lastCall.op = "getVectorView"
    /\ lastCall.arg # NoView
    /\ lastCall.ret = lastCall.arg
    /\ \E j \in Keys \ {lastCall.k} : entity[lastCall.h].vectorViews[j] # NoView

----------------------------------------------------------------------------
(* C10 *)

\* C10 as stated, for an entity that holds C: the view getVectorView(C, f)
\* returns has the declared length of f and aliases positions
\* index*len .. index*len+len-1 of f's buffer: a write to element e of the
\* view is read back at buffer position index*len+e, and a write to that
\* buffer position is read back at element e of the view.
C10_ViewAliasesSlot ==
    (lastCall.op = "getVectorView" /\ lastCall.c \in entity[lastCall.h].bitmask) =>
        LET k == lastCall.k
            id == lastCall.ret
            begin == SlotBegin(lastCall.h, k)
        IN /\ ViewOf(World, id).len = SlotLen(k)
           /\ \A e \in 0..(SlotLen(k) - 1) : \A x \in Values :
                 /\ ArrayGet(CurrentBuffer(ViewSet(World, id, e, x), k), begin + e) = x
                 /\ ViewGet([World EXCEPT !.buffers[k][data[k]] =
                                ArraySet(@, begin + e, x)], id, e) = x

----------------------------------------------------------------------------
(* C11 *)

\* what handle h reads with getValue(C, f), k = <<C, f>>
Read(w, h, k) == getValue(w, h, k).ret

\* position index of handle h exists in the current buffer of key k
InBuffer(w, h, k) == w.entity[h].index < Len(CurrentBuffer(w, k))

\* the step changed what handle h reads with getValue at key k
ReadChanged(h, k) == Read(World', h, k) # Read(World, h, k)

C11_AsStated_Step ==
    /\ lastCall'.op = "setValue" =>
          Read(World', lastCall'.h, lastCall'.k) = lastCall'.arg
    /\ lastCall.op = "setValue" =>
          LET h == lastCall.h
              k == lastCall.k
          IN ReadChanged(h, k) =>
                \/ /\ lastCall'.op = "setValue" /\ lastCall'.k = k
                   /\ entity[lastCall'.h].index = entity[h].index
                \/ /\ lastCall'.op = "addComponent" /\ lastCall'.err = Null
                   /\ lastCall'.c = k[1] /\ lastCall'.h = h

\* C11 as stated: for any entity, component type C, field f and value v,
\* getValue(C, f) right after setValue(C, f, v) returns v, and in the call
\* that follows the setValue what getValue(C, f) returns on that entity
\* changes only if the call is a setValue on that slot or an addComponent(C)
\* on that entity.
C11_SetThenGetAnyEntity == [][C11_AsStated_Step]_vars

C11_Step ==
    /\ lastCall'.op = "setValue" =>
          LET h == lastCall'.h
              k == lastCall'.k
          IN /\ lastCall'.err = Null
             /\ IF InBuffer(World, h, k)
                THEN Read(World', h, k) = lastCall'.arg
                ELSE Read(World', h, k) = Undefined /\ buffers' = buffers
             /\ data' = data
    /\ \A h \in Handles : \A k \in Keys :
          ReadChanged(h, k) =>
             \/ /\ lastCall'.op = "setValue" /\ lastCall'.k = k
                /\ entity[lastCall'.h].index = entity[h].index
             \/ /\ lastCall'.op = "addComponent" /\ lastCall'.err = Null
                /\ lastCall'.c = k[1]
             \/ lastCall'.op = "writeView" /\ lastCall'.k = k

\* C11 (amended): when position index of the entity exists in f's buffer,
\* getValue(C, f) right after setValue(C, f, v) returns v (otherwise the
\* write is dropped and getValue returns undefined); and what getValue(C, f)
\* returns on a handle changes only in a setValue(C, f) through a handle of
\* the same index, in a completed addComponent(C) on some handle, or in a
\* write through a vector view of (C, f).
C11_SetThenGetInBuffer == [][C11_Step]_vars

\* C11 witness: setValue(A, 'v', 1) on a handle of index 1 has just written
\* position 1 of the grown buffer, an element of the slot of index 0, and
\* getValue reads it back.
C11_Witness ==
    /\ lastCall.op = "setValue"
    /\ lastCall.k = <<"A", "v">>
    /\ lastCall.arg = 1
    /\ entity[lastCall.h].index = 1
    /\ Len(CurrentBuffer(World, lastCall.k)) = 4
    /\ Read(World, lastCall.h, lastCall.k) = 1

----------------------------------------------------------------------------
(* C12 *)

\* the elements addComponent(c, d) is to leave in field f of the entity
Resolved(c, f, d) == IF f \in DOMAIN d THEN d[f] ELSE DefaultOf(c, f)

\* C12: after a completed addComponent(C, initialData) every declared field f
\* of C holds, in the entity's slot of f's current buffer, initialData[f] when
\* supplied and f's default otherwise (getValue reads it for a scalar field),
\* whatever the slot held before; the entity holds C; if it held C before the
\* call its bitmask is as before; and the call returned the handle.
C12_AddWritesEveryField ==
    Completed("addComponent") =>
        LET h == lastCall.h
            c == lastCall.c
        IN /\ lastCall.ret = h
           /\ c \in entity[h].bitmask
           /\ entity[h].bitmask = lastCall.pre \cup {c}
           /\ \A f \in Schema(c) :
                 LET k == <<c, f>>
                     want == Resolved(c, f, lastCall.arg)
                 IN /\ \A e \in 0..(SlotLen(k) - 1) :
                          ArrayGet(CurrentBuffer(World, k), SlotBegin(h, k) + e)
                             = want[e + 1]
                    /\ SlotLen(k) = 1 => Read(World, h, k) = want[1]

\* C12 witness: addComponent(A, {x: 1}) has just completed on an entity of
\* index 1 that already held A and B: x reads 1 and the vector field v,
\* not supplied, holds its default.
C12_Witness ==
    /\ Completed("addComponent")
    /\ lastCall.c = "A"
    /\ lastCall.pre = {"A", "B"}
    /\ lastCall.arg # NoData
    /\ "x" \in DOMAIN lastCall.arg
    /\ entity[lastCall.h].index = 1
    /\ Read(World, lastCall.h, <<"A", "x">>) = 1
    /\ ArrayGet(CurrentBuffer(World, <<"A", "v">>), 3) = 0

----------------------------------------------------------------------------
(* C13 *)

\* the last call was a completed removeComponent(C) on an entity that held C,
\* or a completed destroy
Removed ==
    \/ Completed("removeComponent") /\ lastCall.c \in lastCall.pre
    \/ Completed("destroy")

\* the fields whose stored values the last removeComponent(C) or destroy()
\* left behind: those of C, or of every component
LeftBehind == {k \in Keys : lastCall.op = "destroy" \/ k[1] = lastCall.c}

C13_AsStated_Step ==
    /\ lastCall'.op \in {"removeComponent", "destroy"} =>
          /\ buffers' = buffers
          /\ data' = data
    /\ Removed =>
          \A k \in LeftBehind :
             ReadChanged(lastCall.h, k) =>
                \/ /\ lastCall'.op = "addComponent" /\ lastCall'.err = Null
                   /\ lastCall'.c = k[1]
                \/ lastCall'.op = "setValue" /\ lastCall'.k = k

\* C13 as stated: removeComponent(C) and destroy() leave every stored field
\* value as it was, and in the call that follows them getValue(C, f) on that
\* entity returns another value than before the removal only if the call is
\* an addComponent(C) or a setValue.
C13_StaleUntilAddOrSet == [][C13_AsStated_Step]_vars

C13_Step ==
    /\ lastCall'.op \in {"removeComponent", "destroy"} =>
          /\ buffers' = buffers
          /\ data' = data
          /\ views' = views
          /\ \A h \in Handles : \A k \in Keys : ~ReadChanged(h, k)
    /\ Removed =>
          \A k \in LeftBehind :
             ReadChanged(lastCall.h, k) =>
                \/ /\ lastCall'.op = "addComponent" /\ lastCall'.err = Null
                   /\ lastCall'.c = k[1]
                \/ lastCall'.op = "setValue" /\ lastCall'.k = k
                \/ lastCall'.op = "writeView" /\ lastCall'.k = k

\* C13 (amended): removeComponent(C) and destroy() leave every buffer, every
\* stored field value and every view as it was, so getValue returns on every
\* handle what it returned before the call; and in the call that follows
\* them getValue(C, f) on that entity returns another value only if the call
\* is a completed addComponent(C), a setValue(C, f) or a write through a
\* vector view of (C, f).
C13_StaleUntilAddSetOrViewWrite == [][C13_Step]_vars

\* C13 witness: removeComponent(A) has just completed on an entity that held
\* A, and getValue(A, 'x') still reads the 1 stored while it held A.
C13_Witness ==
    /\ Completed("removeComponent")
    /\ lastCall.c = "A"
    /\ "A" \in lastCall.pre
    /\ "A" \notin entity[lastCall.h].bitmask
    /\ Read(World, lastCall.h, <<"A", "x">>) = 1

----------------------------------------------------------------------------
(* C14 *)

\* the releaseEntityInstance calls among the statements a call executed
Releases(call) ==
    {m \in 1..Len(call.steps) : call.steps[m].ev = "releaseEntityInstance"}

C14_Step ==
    /\ IF lastCall'.op = "destroy" /\ entity[lastCall'.h].active
       THEN LET st == lastCall'.steps
            IN /\ lastCall'.err = Null
               /\ Releases(lastCall') = {1}
               /\ st[1].active
               /\ \E m \in 2..Len(st) : st[m].ev = "active" /\ ~st[m].active
               /\ pool' = Append(pool, entity[lastCall'.h].index)
               /\ ~entity'[lastCall'.h].active
       ELSE /\ Releases(lastCall') = {}
            /\ lastCall'.op # "createEntity" => pool' = pool
            /\ lastCall'.op = "destroy" => lastCall'.err = MODIFY_DESTROYED_ENTITY
    /\ \A h \in Handles : ~entity[h].active => ~entity'[h].active
    /\ Len(pool') + Cardinality(DOMAIN entity') - entityIndex'
          = Cardinality({h \in DOMAIN entity' : ~entity'[h].active})

\* C14: a destroy call on an active handle calls releaseEntityInstance
\* exactly once, as its first statement and hence before it sets the active
\* flag to false, adding the handle's index to the free list; every other
\* call, a destroy on an inactive handle included (it fails), calls it not
\* at all and adds nothing to the free list; an inactive handle never
\* becomes active again, so a handle is released at most once in its life and
\* exactly once if it is ever destroyed: the indices released so far (in the
\* free list, or reused by a later handle) are as many as the inactive
\* handles.
C14_ReleasedOnceInDestroy == [][C14_Step]_vars

\* C14 witness: destroy has just released the second handle, while it was
\* still active, after the first handle was destroyed: both indices are in
\* the free list, once each.
C14_Witness ==
    /\ Completed("destroy")
    /\ Releases(lastCall) = {1}
    /\ lastCall.steps[1].active
    /\ Len(pool) = 2
    /\ pool[1] # pool[2]
    /\ \A h \in Handles : ~entity[h].active

----------------------------------------------------------------------------
(* C15 *)

C15_Step ==
    lastCall'.op = "hasComponent" =>
        LET h == lastCall'.h
            c == lastCall'.c
        IN /\ UNCHANGED <<entity, pool, entityIndex, matches, data, buffers, views>>
           /\ lastCall'.steps = <<>>
           /\ IF c \in Registered
              THEN /\ lastCall'.err = Null
                   /\ lastCall'.ret = (c \in entity[h].bitmask)
                   /\ lastCall'.ret = (c \in held[h] /\ entity[h].active)
              ELSE lastCall'.err = NOT_REGISTERED

\* C15: a hasComponent(C) call changes nothing (entities, pool, query
\* matches, storage) and executes no notification; for a registered C it
\* returns, on an active and on a destroyed handle alike, whether the bitmask
\* contains bit(C), which after any sequence of calls is whether C was added
\* and neither removed nor the handle destroyed since; for a type with no
\* assigned bit it fails with 'Component type not registered'.
C15_HasComponentReadsBit == [][C15_Step]_vars

\* C15 witness: hasComponent(A) has just returned false on a destroyed handle
\* to which A was added and never removed, while the other handle holds A.
C15_Witness ==
    /\ Completed("hasComponent")
    /\ lastCall.c = "A"
    /\ lastCall.ret = FALSE
    /\ ~entity[lastCall.h].active
    /\ "A" \in held[lastCall.h]
    /\ \E g \in Handles : "A" \in entity[g].bitmask

----------------------------------------------------------------------------
(* C16 *)

\* the step is a removeComponent(C) call, C registered, on an active entity
\* whose bitmask does not contain bit(C)
RemovesAbsent ==
    /\ lastCall'.op = "removeComponent"
    /\ lastCall'.c \in Registered
    /\ entity[lastCall'.h].active
    /\ lastCall'.c \notin entity[lastCall'.h].bitmask

\* the Query Index notifications among the statements a call executed
Notifications(call) ==
    {m \in 1..Len(call.steps) : call.steps[m].ev = "updateEntity"}

C16_AsStated_Step ==
    RemovesAbsent =>
        /\ lastCall'.err = Null
        /\ entity' = entity
        /\ matches' = matches
        /\ Cardinality(Notifications(lastCall')) = 1

\* C16 as stated: removeComponent(C), C registered, on an active entity whose
\* bitmask does not contain bit(C) does not fail and leaves the bitmask and
\* every query's matches set unchanged, while issuing one notification.
C16_RemoveAbsentIsNoOp == [][C16_AsStated_Step]_vars

C16_Step ==
    RemovesAbsent =>
        LET h == lastCall'.h
            i == entity[h].index
        IN /\ lastCall'.err = Null
           /\ UNCHANGED <<entity, pool, entityIndex, data, buffers, views>>
           /\ Cardinality(Notifications(lastCall')) = 1
           /\ \A q \in Queries :
                 IF RequiredMask(q) # {} THEN matches'[q] = matches[q]
                 ELSE \/ matches'[q] = matches[q]
                      \/ /\ matches'[q] = matches[q] \cup {i}
                         /\ QueryMatches(q, entity[h].bitmask)
           /\ (/\ lastCall.op = "removeComponent" /\ lastCall.err = Null
               /\ lastCall.h = h /\ lastCall.c = lastCall'.c)
                 => matches' = matches

\* C16 (amended): removeComponent(C), C registered, on an active entity whose
\* bitmask does not contain bit(C) does not fail, issues one notification
\* and leaves the bitmask, the pool, the storage and the matches set of
\* every query with a non-empty required mask unchanged; a query with an
\* empty required mask that the bitmask matches may gain the entity's index
\* (an entity no call has notified yet); repeated right after a completed
\* removeComponent(C) on the same entity it changes nothing at all.
C16_RemoveAbsentKeepsMask == [][C16_Step]_vars

\* C16 witness: removeComponent(B) has just completed, with one
\* notification, on an active entity that holds A and did not hold B; the
\* entity is still in the query requiring A and excluding B.
C16_Witness ==
    /\ Completed("removeComponent")
    /\ lastCall.c = "B"
    /\ lastCall.pre = {"A"}
    /\ entity[lastCall.h].active
    /\ entity[lastCall.h].bitmask = {"A"}
    /\ entity[lastCall.h].index \in matches["AnotB"]
    /\ Cardinality(Notifications(lastCall)) = 1

----------------------------------------------------------------------------
(* C17 *)

\* C17: no call fails with 'Cannot access a destroyed entity'; getValue,
\* setValue and getVectorView never fail and hasComponent fails only for a
\* type with no assigned bit, whether the handle is active or destroyed and
\* whether the component was ever added; getValue returns what position
\* index of the field's buffer holds (undefined beyond the buffer), setValue
\* leaves its argument there, and a view that getVectorView creates starts
\* at index * length (clamped to the buffer).
C17_NoAccessGuard ==
    LET h == lastCall.h
        k == lastCall.k
    IN /\ lastCall.err # ACCESS_DESTROYED_ENTITY
       /\ lastCall.op \in {"getValue", "setValue", "getVectorView"} =>
             lastCall.err = Null
       /\ (lastCall.op = "hasComponent" /\ lastCall.c \in Registered) =>
             lastCall.err = Null
       /\ lastCall.op = "getValue" =>
             lastCall.ret = ArrayGet(buffers[k][data[k]], entity[h].index)
       /\ lastCall.op = "setValue" =>
             ArrayGet(buffers[k][data[k]], entity[h].index)
                \in {lastCall.arg, Undefined}
       /\ (lastCall.op = "getVectorView" /\ lastCall.arg = NoView) =>
             LET v == ViewOf(World, lastCall.ret)
             IN /\ v.key = k
                /\ v.begin = Min(SlotBegin(h, k), Len(buffers[k][v.gen]))
                /\ v.begin + v.len <= Len(buffers[k][v.gen])

\* C17 witness: setValue(A, 'x', 1) has just succeeded on a destroyed handle
\* that does not hold A, and position index of A.x holds the 1.
C17_Witness ==
    /\ lastCall.op = "setValue"
    /\ lastCall.err = Null
    /\ lastCall.k = <<"A", "x">>
    /\ lastCall.arg = 1
    /\ ~entity[lastCall.h].active
    /\ "A" \notin held[lastCall.h]
    /\ Read(World, lastCall.h, lastCall.k) = 1

----------------------------------------------------------------------------
(* C18 *)

\* the elements handle h reads through the view getVectorView(C, f) gives it
\* (the cached view, or the one a first call would cut)
ViewReads(w, h, k) ==
    LET o == getVectorView(w, h, k)
    IN [e \in 1..ViewOf(o.w, o.ret).len |-> ViewGet(o.w, o.ret, e - 1)]

\* the step is a write through a handle: setValue, or a write to an element
\* of its vector view
Writes == lastCall'.op \in {"setValue", "writeView"}

\* the handles whose index differs from that of the writing handle
Others == {j \in Handles : entity[j].index # entity[lastCall'.h].index}

C18_AsStated_Step ==
    Writes =>
        LET k == lastCall'.k
        IN \A j \in Others :
              /\ Read(World', j, k) = Read(World, j, k)
              /\ ViewReads(World', j, k) = ViewReads(World, j, k)

\* C18 as stated: a setValue(C, f, v) or a write to an element of the view
\* of (C, f) through one handle changes, for no handle of another index,
\* what getValue(C, f) returns or what any element of its view of (C, f)
\* reads, whether f is scalar or vector.
C18_SlotsIsolated == [][C18_AsStated_Step]_vars

C18_Step ==
    Writes =>
        LET k == lastCall'.k
        IN \A j \in Others :
              /\ (SlotLen(k) = 1 \/ lastCall'.op = "setValue")
                    => Read(World', j, k) = Read(World, j, k)
              /\ (SlotLen(k) = 1 \/ lastCall'.op = "writeView")
                    => ViewReads(World', j, k) = ViewReads(World, j, k)

\* C18, the isolation the code does give: a write to field f of C through
\* one handle changes nothing a handle of another index reads from (C, f) by
\* the same kind of access (setValue against getValue, view write against
\* view elements), whatever the length of f, and nothing it reads by either
\* access when f is scalar (length 1).  For a vector field of length > 1
\* setValue and getValue address position index while views address
\* index * length, so the two kinds of access reach into each other's slots.
C18_SameAccessIsolated == [][C18_Step]_vars

\* C18 witness: the handle of index 1 has just written 1 to an element of
\* its view of A.v, cut from the grown buffer, while the handle of index 0
\* has a view of A.v over the same buffer and reads zeros through it.
C18_Witness ==
    /\ lastCall.op = "writeView"
    /\ lastCall.k = <<"A", "v">>
    /\ lastCall.arg[2] = 1
    /\ entity[lastCall.h].index = 1
    /\ ViewReads(World, lastCall.h, lastCall.k) # <<0, 0>>
    /\ Len(ViewReads(World, lastCall.h, lastCall.k)) = 2
    /\ \E j \in Handles :
          /\ entity[j].index = 0
          /\ entity[j].vectorViews[lastCall.k] # NoView
          /\ ViewOf(World, entity[j].vectorViews[lastCall.k]).gen = data[lastCall.k]
          /\ ViewReads(World, j, lastCall.k) = <<0, 0>>

----------------------------------------------------------------------------
(* C19 *)

C19_Step ==
    /\ lastCall'.op \in Mutators =>
          LET h == lastCall'.h
              i == entity[h].index
          IN /\ \A g \in Handles \ {h} :
                   /\ entity'[g].bitmask = entity[g].bitmask
                   /\ entity'[g].active = entity[g].active
                   /\ entity'[g].index = entity[g].index
             /\ \A q \in Queries : matches'[q] \ {i} = matches[q] \ {i}
    /\ \A g \in Handles : entity'[g].index = entity[g].index

\* C19: an addComponent, removeComponent or destroy call on one handle,
\* completed or failed, leaves the bitmask, the active flag and the index of
\* every other handle as they were, and changes the membership of no index
\* other than that handle's in any query's matches set; and no step changes
\* the index of a handle.
C19_OtherHandlesUntouched == [][C19_Step]_vars

\* C19 witness: destroy has just completed on one handle while another
\* handle, of another index, is active, holds A and B and is in the query
\* requiring both.
C19_Witness ==
    /\ Completed("destroy")
    /\ lastCall.pre # {}
    /\ \E g \in Handles \ {lastCall.h} :
          /\ entity[g].active
          /\ entity[g].bitmask = {"A", "B"}
          /\ entity[g].index # entity[lastCall.h].index
          /\ entity[g].index \in matches["AB"]


====
